---- MODULE Spec2Model ----
(***************************************************************************)
(* Model of surreality_auth/middleware.py: the AuthMiddleware singleton,   *)
(* its JWT check (get_current_account_id / require_auth) and the two       *)
(* account-store lookups (verify_account_exists, get_user_info).           *)
(*                                                                         *)
(* Python values are tagged records [type, v]; text is a sequence of       *)
(* one-character strings so that uuid.UUID's parsing can be computed.      *)
(***************************************************************************)
EXTENDS Integers, Sequences, FiniteSets, TLC

(* ------------------------------ bounds --------------------------------- *)

\* Wall-clock seconds range over 0..MaxTime; so do the tokens' exp claims.
MaxTime == 2

(* --------------------------- Python values ----------------------------- *)

PyNone == [type |-> "NoneType"]

PyStr(s) == [type |-> "str", v |-> s]

PyInt(n) == [type |-> "int", v |-> n]

PyBool(b) == [type |-> "bool", v |-> b]

\* bool(x) as used by `not x`, `x or y` and all([...])
Truthy(x) ==
    CASE x.type = "NoneType" -> FALSE
      [] x.type = "str"      -> Len(x.v) > 0
      [] x.type = "int"      -> x.v # 0
      [] x.type = "bool"     -> x.v
      [] OTHER               -> TRUE

\* Python's `a or b`
PyOr(a, b) == IF Truthy(a) THEN a ELSE b

(* ------------------------------- text ---------------------------------- *)

Rep(c, n) == [i \in 1..n |-> c]

\* 8-4-4-4-12 text made of the digit c
Canonical(c) ==
    Rep(c, 8) \o <<"-">> \o Rep(c, 4) \o <<"-">> \o Rep(c, 4) \o <<"-">>
              \o Rep(c, 4) \o <<"-">> \o Rep(c, 12)

U1 == Canonical("1")

U2 == Canonical("2")

UUpper == Canonical("A")

U1Braced == <<"{">> \o U1 \o <<"}">>

GShape == Canonical("g")

NotAUuid == <<"n", "o", "t", "-", "a", "-", "u", "u", "i", "d">>

EmptyText == <<>>

HexDigits ==
    {"0", "1", "2", "3", "4", "5", "6", "7", "8", "9",
     "a", "b", "c", "d", "e", "f", "A", "B", "C", "D", "E", "F"}

\* str.replace(old, '') for a one-character old
RECURSIVE RemoveChar(_, _)
RemoveChar(s, c) ==
    IF s = <<>> THEN <<>>
    ELSE IF Head(s) = c THEN RemoveChar(Tail(s), c)
         ELSE <<Head(s)>> \o RemoveChar(Tail(s), c)

\* str.replace(old, '') for a multi-character old (leftmost, non-overlapping)
RECURSIVE RemoveSub(_, _)
RemoveSub(s, old) ==
    IF Len(s) < Len(old) THEN s
    ELSE IF SubSeq(s, 1, Len(old)) = old
         THEN RemoveSub(SubSeq(s, Len(old) + 1, Len(s)), old)
         ELSE <<Head(s)>> \o RemoveSub(Tail(s), old)

RECURSIVE LStrip(_, _)
LStrip(s, cs) ==
    IF s # <<>> /\ Head(s) \in cs THEN LStrip(Tail(s), cs) ELSE s

RECURSIVE RStrip(_, _)
RStrip(s, cs) ==
    IF s # <<>> /\ s[Len(s)] \in cs THEN RStrip(SubSeq(s, 1, Len(s) - 1), cs)
    ELSE s

\* str.strip(chars)
Strip(s, cs) == RStrip(LStrip(s, cs), cs)

(* ------------------------------ uuid.UUID ------------------------------ *)

\* uuid.UUID(hex): the text that is left after the urn:/uuid: prefixes, the
\* surrounding braces and the hyphens are dropped
UUIDHex(s) ==
    RemoveChar(
        Strip(RemoveSub(RemoveSub(s, <<"u", "r", "n", ":">>),
                        <<"u", "u", "i", "d", ":">>),
              {"{", "}"}),
        "-")

\* Outcome of uuid.UUID(x): "ok", or the class of the exception it raises.
\* A non-str argument has no .replace and raises AttributeError.
UUID(x) ==
    IF x.type # "str" THEN "AttributeError"
    ELSE IF Len(UUIDHex(x.v)) # 32 THEN "ValueError"
    ELSE IF \E i \in 1..32 : UUIDHex(x.v)[i] \notin HexDigits THEN "ValueError"
    ELSE "ok"

\* str(uuid.UUID(x)) for a text x that parses: the lower-case 8-4-4-4-12 form
\* (only the digits used here need lowering)
Lower(c) == IF c = "A" THEN "a" ELSE c

UUIDStr(s) ==
    LET h == [i \in 1..32 |-> Lower(UUIDHex(s)[i])]
    IN  SubSeq(h, 1, 8) \o <<"-">> \o SubSeq(h, 9, 12) \o <<"-">>
        \o SubSeq(h, 13, 16) \o <<"-">> \o SubSeq(h, 17, 20) \o <<"-">>
        \o SubSeq(h, 21, 32)

(* ------------------------------ constants ------------------------------ *)

S3cret == <<"s", "3", "c", "r", "e", "t">>

OtherSecret == <<"o", "t", "h", "e", "r">>

StoreUrl == <<"u", "r", "l">>

ServiceKey == <<"k", "e", "y">>

Authenticated ==
    <<"a", "u", "t", "h", "e", "n", "t", "i", "c", "a", "t", "e", "d">>

Anon == <<"a", "n", "o", "n">>

EnvNames == {"SUPABASE_URL", "SUPABASE_SERVICE_ROLE_KEY", "SUPABASE_JWT_SECRET"}

(* ------------------------------ exceptions ----------------------------- *)

\* Exception classes and their base classes (PyJWT's, Starlette's, builtins)
Ancestors(cls) ==
    CASE cls = "ExpiredSignatureError" ->
            {"ExpiredSignatureError", "InvalidTokenError", "Exception"}
      [] cls \in {"DecodeError", "InvalidSignatureError", "InvalidAlgorithmError",
                  "InvalidAudienceError", "MissingRequiredClaimError"} ->
            {cls, "InvalidTokenError", "Exception"}
      [] OTHER -> {cls, "Exception"}

IsInstance(e, cls) == cls \in Ancestors(e.cls)

NoExc == [cls |-> "", msg |-> <<>>, status_code |-> 0, detail |-> <<>>]

\* An exception of class cls whose str() is msg
Exc(cls, msg) == [cls |-> cls, msg |-> msg, status_code |-> 0, detail |-> <<>>]

\* HTTPException(status_code=..., detail=...); str() gives "<status>: <detail>"
HTTPException(status_code, detail) ==
    [cls |-> "HTTPException",
     msg |-> <<IF status_code = 401 THEN "401" ELSE "500", ": ">> \o detail,
     status_code |-> status_code, detail |-> detail]

\* How a call ends: it returns value, or raises exc
Return(v) == [raised |-> FALSE, value |-> v, exc |-> NoExc]

Raise(e) == [raised |-> TRUE, value |-> PyNone, exc |-> e]

(* ------------------------------ jwt.decode ----------------------------- *)

\* A bearer token: whether it has the three base64 segments, the header's
\* alg, the secret it was signed with, and the claims of its payload
\* (PyNone for a claim the payload does not carry).
SubValues ==
    {PyNone, PyStr(EmptyText), PyStr(U1), PyStr(U1Braced), PyStr(UUpper),
     PyStr(NotAUuid), PyStr(GShape)}

AccountIdValues ==
    {PyNone, PyStr(EmptyText), PyStr(U2), PyStr(NotAUuid), PyInt(7)}

ExpValues == {PyNone} \cup {PyInt(n) : n \in 0..MaxTime}

AudValues == {PyNone, PyStr(Authenticated), PyStr(Anon)}

SignedTokens ==
    [segments : {3}, alg : {"HS256", "HS512"}, key : {S3cret, OtherSecret},
     exp : ExpValues, aud : AudValues, sub : SubValues,
     account_id : AccountIdValues]

GarbageToken ==
    [segments |-> 1, alg |-> "HS256", key |-> S3cret, exp |-> PyNone,
     aud |-> PyNone, sub |-> PyNone, account_id |-> PyNone]

Tokens == SignedTokens \cup {GarbageToken}

\* The decoded payload: the claims the handler reads
Payload(token) == [sub |-> token.sub, account_id |-> token.account_id]

\* dict.get(name)
Get(payload, name) == IF name = "sub" THEN payload.sub ELSE payload.account_id

\* PyJWT's exp test.  Releases before 2.6 reject exp < now, later ones
\* exp <= now; setup.py admits both (PyJWT>=2.0.0).
IsExpired(exp, t, inclusive) ==
    exp.type = "int" /\ (exp.v < t \/ (inclusive /\ exp.v = t))

\* signature check of the HS256 MAC: the token verifies under key exactly
\* when it was signed with key
VerifySignatureBroken(token, key) == TRUE

VerifySignature(token, key) == PyStr(token.key) = key

\* PyJWT's audience check, run because audience= is passed: "ok" or the
\* class of the exception raised
ValidateAudBroken(aud, audience) == "ok"

ValidateAud(aud, audience) ==
    IF aud = PyNone THEN "MissingRequiredClaimError"
    ELSE IF aud # PyStr(audience) THEN "InvalidAudienceError"
    ELSE "ok"

\* jwt.decode(token, key, algorithms=[...], audience=...) at clock value t:
\* structure, then header alg, then signature, then exp, then aud.
jwt_decode(token, key, algorithms, audience, t, inclusive) ==
    IF token.segments # 3
    THEN Raise(Exc("DecodeError", <<"Not enough segments">>))
    ELSE IF token.alg \notin algorithms
    THEN Raise(Exc("InvalidAlgorithmError",
                   <<"The specified alg value is not allowed">>))
    ELSE IF ~VerifySignature(token, key)
    THEN Raise(Exc("InvalidSignatureError", <<"Signature verification failed">>))
    ELSE IF IsExpired(token.exp, t, inclusive)
    THEN Raise(Exc("ExpiredSignatureError", <<"Signature has expired">>))
    ELSE IF ValidateAud(token.aud, audience) # "ok"
    THEN Raise(Exc(ValidateAud(token.aud, audience),
                   IF token.aud = PyNone
                   THEN <<"Token is missing the \"aud\" claim">>
                   ELSE <<"Invalid audience">>))
    ELSE Return(Payload(token))

(* --------------------------- AuthMiddleware ---------------------------- *)

\* a validator that accepts every text
_is_valid_uuid_accept_all(uuid_string) == Return(PyBool(TRUE))

\* _is_valid_uuid: True / False, or the exception uuid.UUID raises that the
\* except (ValueError, TypeError) clause does not catch
_is_valid_uuid(uuid_string) ==
    LET r == UUID(uuid_string)
    IN  IF r = "ok" THEN Return(PyBool(TRUE))
        ELSE IF r \in {"ValueError", "TypeError"} THEN Return(PyBool(FALSE))
        ELSE Raise(Exc(r, <<"'int' object has no attribute 'replace'">>))

\* the two claims looked up in the opposite order
SelectAccountIdSwapped(payload) ==
    PyOr(Get(payload, "account_id"), Get(payload, "sub"))

\* line 72: account_id = payload.get("sub") or payload.get("account_id")
SelectAccountId(payload) == PyOr(Get(payload, "sub"), Get(payload, "account_id"))

\* the checks of lines 74-85, but returning the parsed UUID's text
CheckAccountIdCanonical(account_id) ==
    IF ~Truthy(account_id)
    THEN Raise(HTTPException(401, <<"Invalid token: missing account_id">>))
    ELSE LET valid == _is_valid_uuid(account_id)
         IN  IF valid.raised THEN valid
             ELSE IF ~valid.value.v
             THEN Raise(HTTPException(401, <<"Invalid token: malformed account_id">>))
             ELSE Return(PyStr(UUIDStr(account_id.v)))

\* lines 74-87: the missing / malformed checks and the return
CheckAccountId(account_id) ==
    IF ~Truthy(account_id)
    THEN Raise(HTTPException(401, <<"Invalid token: missing account_id">>))
    ELSE LET valid == _is_valid_uuid(account_id)
         IN  IF valid.raised THEN valid
             ELSE IF ~valid.value.v
             THEN Raise(HTTPException(401, <<"Invalid token: malformed account_id">>))
             ELSE Return(account_id)

\* lines 64-87: the body of the try block
TryBody(self, token, t, inclusive) ==
    LET decoded == jwt_decode(token, self.jwt_secret, {"HS256"}, Authenticated,
                              t, inclusive)
    IN  IF decoded.raised THEN decoded
        ELSE CheckAccountId(SelectAccountId(decoded.value))

\* the clauses with the general token error ahead of the expiry error
ExceptClausesReordered ==
    <<"InvalidTokenError", "ExpiredSignatureError", "Exception">>

\* lines 89-94: the except clauses, in source order
ExceptClauses == <<"ExpiredSignatureError", "InvalidTokenError", "Exception">>

\* what the clause for class cls raises for the caught exception e
Handler(cls, e) ==
    CASE cls = "ExpiredSignatureError" ->
            HTTPException(401, <<"Token has expired">>)
      [] cls = "InvalidTokenError" ->
            HTTPException(401, <<"Invalid token: ">> \o e.msg)
      [] OTHER ->
            HTTPException(500, <<"Authentication error: ">> \o e.msg)

\* try/except dispatch: the first clause whose class the exception is an
\* instance of handles it; with none, the exception propagates
Except(result) ==
    IF ~result.raised THEN result
    ELSE LET matching == {i \in 1..Len(ExceptClauses) :
                             IsInstance(result.exc, ExceptClauses[i])}
         IN  IF matching = {} THEN result
             ELSE LET first == CHOOSE i \in matching : \A j \in matching : i <= j
                  IN  Raise(Handler(ExceptClauses[first], result.exc))

\* lines 60-94
get_current_account_id(self, token, t, inclusive) ==
    Except(TryBody(self, token, t, inclusive))

(* ---------------------------- account store --------------------------- *)

\* Rows the users table can hold; account_id is its unique column
Rows == {[account_id |-> U1, plan |-> "free"], [account_id |-> U2, plan |-> "pro"]}

PyDict(row) == [type |-> "dict", v |-> row]

PyList(rows) == [type |-> "list", v |-> rows]

\* create_client(url, key)
Client(url, key) == [supabase_url |-> url, supabase_key |-> key]

NoClient == Client(PyNone, PyNone)

\* rows of table whose account_id column equals the argument of .eq()
Matching(table, account_id) == {r \in table : PyStr(r.account_id) = account_id}

\* lines 120-124: .select("account_id").eq(...).limit(1).execute()
\* fault: the store call itself fails
ExecuteLimit1(table, account_id, fault) ==
    IF fault THEN Raise(Exc("APIError", <<"store error">>))
    ELSE LET m == Matching(table, account_id)
         IN  Return(PyList(IF m = {} THEN <<>> ELSE <<CHOOSE r \in m : TRUE>>))

\* lines 142-146: .select("*").eq(...).single().execute(); single() makes
\* the store answer with an error unless exactly one row matches
ExecuteSingle(table, account_id, fault) ==
    IF fault THEN Raise(Exc("APIError", <<"store error">>))
    ELSE LET m == Matching(table, account_id)
         IN  IF Cardinality(m) # 1
             THEN Raise(Exc("APIError", <<"JSON object requested, multiple (or no) rows returned">>))
             ELSE Return(PyDict(CHOOSE r \in m : TRUE))

\* the lookup with a store error reported as found
verify_account_exists_leaky(table, account_id, fault) ==
    LET result == ExecuteLimit1(table, account_id, fault)
    IN  IF result.raised THEN Return(PyBool(TRUE))
        ELSE Return(PyBool(Len(result.value.v) > 0))

\* lines 119-129
verify_account_exists(table, account_id, fault) ==
    LET result == ExecuteLimit1(table, account_id, fault)
    IN  IF result.raised /\ IsInstance(result.exc, "Exception")
        THEN Return(PyBool(FALSE))
        ELSE IF result.raised THEN result
        ELSE Return(PyBool(Len(result.value.v) > 0))

\* lines 141-151
get_user_info(table, account_id, fault) ==
    LET result == ExecuteSingle(table, account_id, fault)
    IN  IF result.raised /\ IsInstance(result.exc, "Exception")
        THEN Return(PyNone)
        ELSE result

(* ------------------------------- state --------------------------------- *)

VARIABLES
    environ,            \* os.environ restricted to the three names read
    import_state,       \* "importing", "ready", or the exception that ended the import
    auth_middleware,    \* the module-level instance (bound = FALSE until assigned)
    create_client_calls,\* number of create_client calls made
    now,                \* wall clock, seconds
    exp_inclusive,      \* the installed PyJWT rejects exp = now
    users,              \* rows of the store's users table
    last                \* the latest call and how it ended

vars == <<environ, import_state, auth_middleware, create_client_calls, now,
          exp_inclusive, users, last>>

\* os.getenv(name)
getenv(name) == environ[name]

Unbound ==
    [bound |-> FALSE, supabase_url |-> PyNone, service_role_key |-> PyNone,
     jwt_secret |-> PyNone, supabase |-> NoClient]

NoCall ==
    [op |-> "none", token |-> GarbageToken, account_id |-> PyNone,
     fault |-> FALSE, t |-> 0, selected |-> PyNone, result |-> Return(PyNone)]

EnvValues(name) ==
    {PyNone, PyStr(EmptyText)} \cup
    (CASE name = "SUPABASE_URL" -> {PyStr(StoreUrl)}
       [] name = "SUPABASE_SERVICE_ROLE_KEY" -> {PyStr(ServiceKey)}
       [] OTHER -> {PyStr(S3cret), PyStr(OtherSecret)})

Init ==
    /\ environ \in {e \in [EnvNames -> UNION {EnvValues(n) : n \in EnvNames}] :
                      \A n \in EnvNames : e[n] \in EnvValues(n)}
    /\ import_state = "importing"
    /\ auth_middleware = Unbound
    /\ create_client_calls = 0
    /\ now = 0
    /\ exp_inclusive \in BOOLEAN
    /\ users \in SUBSET Rows
    /\ last = NoCall

\* a check that forgets the signing secret
ConfigCompleteTwo(supabase_url, service_role_key, jwt_secret) ==
    Truthy(supabase_url) /\ Truthy(service_role_key)

\* line 35: all([self.supabase_url, self.service_role_key, self.jwt_secret])
ConfigComplete(supabase_url, service_role_key, jwt_secret) ==
    Truthy(supabase_url) /\ Truthy(service_role_key) /\ Truthy(jwt_secret)

\* line 172 (module import) running __init__, lines 29-42.  create_client can
\* itself raise; then too the name auth_middleware is never bound.
Construct ==
    /\ import_state = "importing"
    /\ LET supabase_url == getenv("SUPABASE_URL")
           service_role_key == getenv("SUPABASE_SERVICE_ROLE_KEY")
           jwt_secret == getenv("SUPABASE_JWT_SECRET")
       IN  IF ~ConfigComplete(supabase_url, service_role_key, jwt_secret)
           THEN /\ import_state' = "ValueError"
                /\ UNCHANGED <<auth_middleware, create_client_calls>>
           ELSE /\ create_client_calls' = create_client_calls + 1
                /\ \E created \in BOOLEAN :
                     IF created
                     THEN /\ import_state' = "ready"
                          /\ auth_middleware' =
                               [bound |-> TRUE, supabase_url |-> supabase_url,
                                service_role_key |-> service_role_key,
                                jwt_secret |-> jwt_secret,
                                supabase |-> Client(supabase_url, service_role_key)]
                     ELSE /\ import_state' = "SupabaseException"
                          /\ UNCHANGED auth_middleware
    /\ UNCHANGED <<environ, now, exp_inclusive, users, last>>

\* lines 176-189: require_auth -> auth_middleware.get_current_account_id, for
\* any bearer token, at the clock value the call reads
RequireAuth ==
    /\ import_state = "ready"
    /\ last = NoCall
    /\ \E token \in Tokens, t \in now..MaxTime :
         /\ now' = t
         /\ last' = [op |-> "get_current_account_id", token |-> token,
                     account_id |-> PyNone, fault |-> FALSE, t |-> t,
                     selected |->
                        LET decoded == jwt_decode(token, auth_middleware.jwt_secret,
                                                  {"HS256"}, Authenticated, t,
                                                  exp_inclusive)
                        IN  IF decoded.raised THEN PyNone
                            ELSE SelectAccountId(decoded.value),
                     result |-> get_current_account_id(auth_middleware, token, t,
                                                       exp_inclusive)]
    /\ UNCHANGED <<environ, import_state, auth_middleware, create_client_calls,
                   exp_inclusive, users>>

GatewayArgs == {PyStr(U1), PyStr(U2), PyStr(NotAUuid)}

\* lines 109-129
VerifyAccountExists ==
    /\ import_state = "ready"
    /\ last = NoCall
    /\ \E account_id \in GatewayArgs, fault \in BOOLEAN :
         last' = [op |-> "verify_account_exists", token |-> GarbageToken,
                  account_id |-> account_id, fault |-> fault, t |-> now,
                  selected |-> PyNone,
                  result |-> verify_account_exists(users, account_id, fault)]
    /\ UNCHANGED <<environ, import_state, auth_middleware, create_client_calls,
                   now, exp_inclusive, users>>

\* lines 131-151
GetUserInfo ==
    /\ import_state = "ready"
    /\ last = NoCall
    /\ \E account_id \in GatewayArgs, fault \in BOOLEAN :
         last' = [op |-> "get_user_info", token |-> GarbageToken,
                  account_id |-> account_id, fault |-> fault, t |-> now,
                  selected |-> PyNone,
                  result |-> get_user_info(users, account_id, fault)]
    /\ UNCHANGED <<environ, import_state, auth_middleware, create_client_calls,
                   now, exp_inclusive, users>>

\* The call's outcome goes back to the request pipeline and the request ends;
\* nothing of it is kept (no per-request state outlives the call).
Respond ==
    /\ last # NoCall
    /\ last' = NoCall
    /\ UNCHANGED <<environ, import_state, auth_middleware, create_client_calls,
                   now, exp_inclusive, users>>

Next == Construct \/ RequireAuth \/ VerifyAccountExists \/ GetUserInfo \/ Respond

Spec == Init /\ [][Next]_vars

(* ----------------------- vocabulary of the claims ---------------------- *)

\* texts of the model's universe that Python's uuid.UUID accepts
ValidUUIDTexts == {U1, U2, U1Braced, UUpper}

IsUUIDValue(x) == x.type = "str" /\ x.v \in ValidUUIDTexts

AbsentOrEmpty(x) == x = PyNone \/ x = PyStr(EmptyText)

AuthCall == last.op = "get_current_account_id"

\* signed with the configured secret, HS256, three segments
CorrectlySigned(token) ==
    /\ token.segments = 3
    /\ token.alg = "HS256"
    /\ PyStr(token.key) = auth_middleware.jwt_secret

\* no exp claim, or one strictly after the clock value of the call
Unexpired(token, t) == token.exp = PyNone \/ (token.exp.type = "int" /\ token.exp.v > t)

\* an exp claim strictly before the clock value of the call
ExpiryInPast(token, t) == token.exp.type = "int" /\ token.exp.v < t

AudienceOk(token) == token.aud = PyStr(Authenticated)

\* the token passed signature, expiry and audience verification in the call
Verified(token, t) ==
    /\ CorrectlySigned(token)
    /\ AudienceOk(token)
    /\ \/ Unexpired(token, t)
       \/ (token.exp.type = "int" /\ token.exp.v = t /\ ~exp_inclusive)

Returned(v) == ~last.result.raised /\ last.result.value = v

FailedWith(status_code, detail) ==
    /\ last.result.raised
    /\ last.result.exc.cls = "HTTPException"
    /\ last.result.exc.status_code = status_code
    /\ last.result.exc.detail = detail

\* 401 with detail "Invalid token: <detail>", <detail> being the decoder's message
FailedMalformed ==
    /\ last.result.raised
    /\ last.result.exc.cls = "HTTPException"
    /\ last.result.exc.status_code = 401
    /\ Len(last.result.exc.detail) = 2
    /\ last.result.exc.detail[1] = "Invalid token: "

(* -------------------------------- claims ------------------------------- *)

\* C1: a token correctly signed with the configured secret (HS256), not
\* expired, with audience "authenticated" and a UUID-valued sub makes the
\* call return exactly the sub text of the token, whatever account_id holds.
Theorem_C1 ==
    (/\ AuthCall
     /\ CorrectlySigned(last.token)
     /\ Unexpired(last.token, last.t)
     /\ AudienceOk(last.token)
     /\ IsUUIDValue(last.token.sub))
    => Returned(last.token.sub)

Witness_C1 ==
    /\ AuthCall
    /\ CorrectlySigned(last.token)
    /\ last.token.exp = PyInt(MaxTime)
    /\ last.t < MaxTime
    /\ AudienceOk(last.token)
    /\ last.token.sub = PyStr(U1Braced)
    /\ last.token.account_id = PyStr(NotAUuid)
    /\ Returned(PyStr(U1Braced))

\* C2: for every verified claim set the identifier selected is sub when sub
\* is present and non-empty, and account_id exactly when sub is absent or
\* empty; with sub absent or empty and a UUID account_id the call returns the
\* account_id value.
Theorem_C2 ==
    (AuthCall /\ Verified(last.token, last.t))
    => /\ AbsentOrEmpty(last.token.sub) => last.selected = last.token.account_id
       /\ ~AbsentOrEmpty(last.token.sub) => last.selected = last.token.sub
       /\ (AbsentOrEmpty(last.token.sub) /\ IsUUIDValue(last.token.account_id))
             => Returned(last.token.account_id)

Witness_C2 ==
    /\ AuthCall
    /\ Verified(last.token, last.t)
    /\ last.token.sub = PyNone
    /\ last.token.account_id = PyStr(U2)
    /\ last.selected = PyStr(U2)
    /\ Returned(PyStr(U2))

\* C3: a verified token whose sub is a non-empty value that is not a valid
\* UUID fails with status 401 and detail "Invalid token: malformed
\* account_id", whatever account_id holds.
Claim_C3 ==
    (/\ AuthCall
     /\ Verified(last.token, last.t)
     /\ last.token.sub.type = "str"
     /\ last.token.sub.v # EmptyText
     /\ last.token.sub.v \notin ValidUUIDTexts)
    => FailedWith(401, <<"Invalid token: malformed account_id">>)

\* C4: a verified token in which neither sub nor account_id yields a
\* non-empty value fails with status 401 and detail "Invalid token: missing
\* account_id".
Claim_C4 ==
    (/\ AuthCall
     /\ Verified(last.token, last.t)
     /\ AbsentOrEmpty(last.token.sub)
     /\ AbsentOrEmpty(last.token.account_id))
    => FailedWith(401, <<"Invalid token: missing account_id">>)

\* C5: a token signed with a secret other than the configured one fails with
\* status 401 and detail "Invalid token: <detail>", for every combination of
\* its claims, and returns no identifier.
Theorem_C5 ==
    (/\ AuthCall
     /\ last.token.segments = 3
     /\ PyStr(last.token.key) # auth_middleware.jwt_secret)
    => FailedMalformed

Witness_C5 ==
    /\ AuthCall
    /\ last.token.segments = 3
    /\ last.token.alg = "HS256"
    /\ PyStr(last.token.key) # auth_middleware.jwt_secret
    /\ ExpiryInPast(last.token, last.t)
    /\ last.token.aud = PyNone
    /\ last.token.sub = PyStr(U1)
    /\ FailedMalformed

\* C6: a correctly signed token whose exp is in the past fails with status
\* 401 and detail "Token has expired", whatever its other claims are, and
\* not with the general "Invalid token: ..." detail.
Theorem_C6 ==
    (/\ AuthCall
     /\ CorrectlySigned(last.token)
     /\ ExpiryInPast(last.token, last.t))
    => FailedWith(401, <<"Token has expired">>)

Witness_C6 ==
    /\ AuthCall
    /\ CorrectlySigned(last.token)
    /\ ExpiryInPast(last.token, last.t)
    /\ last.token.aud = PyStr(Anon)
    /\ last.token.sub = PyStr(NotAUuid)
    /\ FailedWith(401, <<"Token has expired">>)

\* C7: every value a call returns is a valid UUID text and is the sub or the
\* account_id claim of the token of that call, which passed signature,
\* audience and expiry verification; a call that fails returns nothing.
Theorem_C7 ==
    /\ (AuthCall /\ ~last.result.raised)
          => /\ Verified(last.token, last.t)
             /\ IsUUIDValue(last.result.value)
             /\ last.result.value \in {last.token.sub, last.token.account_id}
    /\ (AuthCall /\ last.result.raised) => last.result.value = PyNone

Witness_C7 ==
    /\ AuthCall
    /\ ~last.result.raised
    /\ last.token.sub = PyStr(EmptyText)
    /\ last.result.value = last.token.account_id
    /\ IsUUIDValue(last.result.value)

\* C8: a correctly signed, unexpired token whose audience is missing or is
\* not "authenticated" is rejected with status 401 and yields no identifier,
\* even when its sub is a valid UUID.
Theorem_C8 ==
    (/\ AuthCall
     /\ CorrectlySigned(last.token)
     /\ Unexpired(last.token, last.t)
     /\ ~AudienceOk(last.token))
    => /\ last.result.raised
       /\ last.result.exc.cls = "HTTPException"
       /\ last.result.exc.status_code = 401

Witness_C8 ==
    /\ AuthCall
    /\ CorrectlySigned(last.token)
    /\ Unexpired(last.token, last.t)
    /\ last.token.aud = PyNone
    /\ IsUUIDValue(last.token.sub)
    /\ FailedMalformed

\* C9: verify_account_exists returns True exactly when the store call
\* succeeds with a matching row and False otherwise; get_user_info returns
\* the matching record when the call succeeds and finds it and None
\* otherwise; neither ever raises.
StoreHit == ~last.fault /\ \E r \in users : PyStr(r.account_id) = last.account_id

Theorem_C9 ==
    /\ last.op = "verify_account_exists" => last.result = Return(PyBool(StoreHit))
    /\ last.op = "get_user_info" =>
          /\ ~last.result.raised
          /\ StoreHit => /\ last.result.value.type = "dict"
                         /\ last.result.value.v \in users
                         /\ PyStr(last.result.value.v.account_id) = last.account_id
          /\ ~StoreHit => last.result.value = PyNone

Witness_C9 ==
    /\ last.op = "verify_account_exists"
    /\ last.fault
    /\ \E r \in users : PyStr(r.account_id) = last.account_id
    /\ last.result = Return(PyBool(FALSE))

\* C10: with any of the three configuration values absent or empty the
\* import fails with ValueError before create_client is called, the instance
\* is never bound and no call is ever served; a bound instance holds three
\* non-empty values, and no step changes it.
EnvComplete == \A n \in EnvNames : environ[n].type = "str" /\ environ[n].v # EmptyText

ConfigInv ==
    /\ ~EnvComplete =>
          /\ import_state \in {"importing", "ValueError"}
          /\ create_client_calls = 0
          /\ auth_middleware = Unbound
          /\ last = NoCall
    /\ last # NoCall => import_state = "ready"
    /\ import_state = "ready" <=> auth_middleware.bound
    /\ auth_middleware.bound =>
          /\ EnvComplete
          /\ auth_middleware.supabase_url = environ["SUPABASE_URL"]
          /\ auth_middleware.service_role_key = environ["SUPABASE_SERVICE_ROLE_KEY"]
          /\ auth_middleware.jwt_secret = environ["SUPABASE_JWT_SECRET"]
          /\ auth_middleware.supabase =
                Client(environ["SUPABASE_URL"], environ["SUPABASE_SERVICE_ROLE_KEY"])

Theorem_C10 ==
    /\ []ConfigInv
    /\ [][auth_middleware.bound => auth_middleware' = auth_middleware]_vars

Witness_C10 ==
    /\ import_state = "ValueError"
    /\ environ["SUPABASE_URL"] = PyStr(StoreUrl)
    /\ environ["SUPABASE_SERVICE_ROLE_KEY"] = PyStr(ServiceKey)
    /\ environ["SUPABASE_JWT_SECRET"] = PyStr(EmptyText)
    /\ create_client_calls = 0
    /\ auth_middleware = Unbound

====
